---- MODULE Spec2Model ----
(***************************************************************************)
(* Model of the AGENTS.md injector (src/src/AgentsMdInjector.ts), of the   *)
(* plugin hooks that drive it (src/src/index.ts), and of the way its async *)
(* handler interleaves on the single JavaScript thread.                    *)
(*                                                                         *)
(* Paths are strings, modelled as sequences of one-character strings, and  *)
(* the node:path functions the injector calls (isAbsolute, join, dirname,  *)
(* relative) and String.prototype.startsWith / split are computed on the   *)
(* characters the way the POSIX implementations compute them.  The state   *)
(* holds each string as a TLA+ string (Str), and CharsOf gives back its    *)
(* characters.                                                             *)
(***************************************************************************)
EXTENDS Integers, Sequences, FiniteSets, TLC

\* ------------------------------------------------------------------------
\* Bounds
\* ------------------------------------------------------------------------

\* number of handleFileReadComplete invocations in one behaviour
MaxCalls == 2

\* number of storeFilePathForCall invocations in one behaviour: one for each
\* handleFileReadComplete
MaxStores == MaxCalls

\* ------------------------------------------------------------------------
\* Strings
\* ------------------------------------------------------------------------

sep == "/"

nW    == <<"w">>
nW2   == <<"w", "2">>
nA    == <<"a">>
nB    == <<"b">>
nC    == <<"c">>
nF    == <<"f">>
nX    == <<"x">>
nDot2 == <<".", ".">>
nDotA == <<".", ".", "a">>

\* the literal "AGENTS.md" of findParentAgentsMdPaths
AgentsMdName == <<"A", "G", "E", "N", "T", "S", ".", "m", "d">>

\* the worktree the injector is constructed with: "/w"
Worktree == <<sep>> \o nW

RECURSIVE JoinWith(_)
\* Array.prototype.join(sep) on a sequence of strings
JoinWith(segs) ==
    IF segs = <<>> THEN <<>>
    ELSE IF Len(segs) = 1 THEN segs[1]
    ELSE segs[1] \o <<sep>> \o JoinWith(Tail(segs))

RECURSIVE SplitAcc(_, _, _)
SplitAcc(rest, cur, out) ==
    IF rest = <<>> THEN Append(out, cur)
    ELSE IF Head(rest) = sep THEN SplitAcc(Tail(rest), <<>>, Append(out, cur))
    ELSE SplitAcc(Tail(rest), Append(cur, Head(rest)), out)

\* String.prototype.split(sep): "a//b" gives <<"a", "", "b">>, "" gives <<"">>
Split(s) == SplitAcc(s, <<>>, <<>>)

\* String.prototype.startsWith
startsWith(s, prefix) ==
    /\ Len(prefix) <= Len(s)
    /\ SubSeq(s, 1, Len(prefix)) = prefix

\* ------------------------------------------------------------------------
\* node:path (posix)
\* ------------------------------------------------------------------------

isAbsolute(p) == Len(p) > 0 /\ p[1] = sep

RECURSIVE normalizeSegs(_, _, _)
\* normalizeString: resolves "." and ".." segments and drops empty ones
normalizeSegs(segs, out, allowAboveRoot) ==
    IF segs = <<>> THEN out
    ELSE LET s == Head(segs)
             r == Tail(segs)
         IN  IF s = <<>> \/ s = <<".">> THEN normalizeSegs(r, out, allowAboveRoot)
             ELSE IF s = nDot2
                  THEN IF out # <<>> /\ out[Len(out)] # nDot2
                       THEN normalizeSegs(r, SubSeq(out, 1, Len(out) - 1), allowAboveRoot)
                       ELSE IF allowAboveRoot
                            THEN normalizeSegs(r, Append(out, s), allowAboveRoot)
                            ELSE normalizeSegs(r, out, allowAboveRoot)
                  ELSE normalizeSegs(r, Append(out, s), allowAboveRoot)

\* path.normalize
normalize(p) ==
    IF Len(p) = 0 THEN <<".">>
    ELSE LET abs      == isAbsolute(p)
             trailing == p[Len(p)] = sep
             body     == JoinWith(normalizeSegs(Split(p), <<>>, ~abs))
         IN  IF body = <<>>
             THEN IF abs THEN <<sep>>
                  ELSE IF trailing THEN <<".", sep>> ELSE <<".">>
             ELSE (IF abs THEN <<sep>> ELSE <<>>) \o body
                      \o (IF trailing THEN <<sep>> ELSE <<>>)

\* path.join: the non-empty arguments joined by "/" and normalized
join(parts) ==
    LET nonEmpty == SelectSeq(parts, LAMBDA x : Len(x) > 0)
    IN  IF nonEmpty = <<>> THEN <<".">> ELSE normalize(JoinWith(nonEmpty))

RECURSIVE dirnameEnd(_, _, _)
\* the backwards scan of path.dirname: the index of the slash that ends the
\* directory part (0 when there is none), skipping trailing slashes
dirnameEnd(p, i, matchedSlash) ==
    IF i < 2 THEN 0
    ELSE IF p[i] = sep
         THEN IF ~matchedSlash THEN i ELSE dirnameEnd(p, i - 1, matchedSlash)
         ELSE dirnameEnd(p, i - 1, FALSE)

\* path.dirname (no normalization)
dirname(p) ==
    IF Len(p) = 0 THEN <<".">>
    ELSE LET hasRoot == p[1] = sep
             end     == dirnameEnd(p, Len(p), TRUE)
         IN  IF end = 0 THEN (IF hasRoot THEN <<sep>> ELSE <<".">>)
             ELSE IF hasRoot /\ end = 2 THEN <<sep, sep>>
             ELSE SubSeq(p, 1, end - 1)

\* path.resolve of one path; a relative one is resolved against the
\* process working directory, taken to be the worktree
resolveSegs(p) ==
    normalizeSegs(Split(IF isAbsolute(p) THEN p ELSE Worktree \o <<sep>> \o p),
                  <<>>, FALSE)

RECURSIVE commonLen(_, _)
commonLen(a, b) ==
    IF a = <<>> \/ b = <<>> \/ Head(a) # Head(b) THEN 0
    ELSE 1 + commonLen(Tail(a), Tail(b))

\* path.relative(from, to)
relative(from, to) ==
    IF from = to THEN <<>>
    ELSE LET f == resolveSegs(from)
             t == resolveSegs(to)
             c == commonLen(f, t)
         IN  JoinWith([i \in 1..(Len(f) - c) |-> nDot2] \o SubSeq(t, c + 1, Len(t)))

\* ------------------------------------------------------------------------
\* Inputs: the file paths handed to the read tool, each with the directory
\* it denotes (absolute, canonical, as segments)
\* ------------------------------------------------------------------------

Abs(segs) == <<sep>> \o JoinWith(segs)

RECURSIVE Str(_)
\* a sequence of characters as a TLA+ string
Str(cs) == IF cs = <<>> THEN "" ELSE cs[1] \o Str(Tail(cs))

RawInputs ==
    { [path |-> Abs(<<nW, nA, nB, nF>>),      dir |-> <<nW, nA, nB>>],  \* /w/a/b/f
      [path |-> JoinWith(<<nA, nF>>),         dir |-> <<nW, nA>>],      \* a/f
      [path |-> Abs(<<nW, nF>>),              dir |-> <<nW>>],          \* /w/f
      [path |-> Abs(<<nW, nC, nB, nF>>),      dir |-> <<nW, nC, nB>>],  \* /w/c/b/f
      [path |-> Abs(<<nW, nDotA, nF>>),       dir |-> <<nW, nDotA>>],   \* /w/..a/f
      [path |-> Abs(<<nW2, nA, nF>>),         dir |-> <<nW2, nA>>],     \* /w2/a/f
      [path |-> JoinWith(<<nDot2, nX, nA, nF>>), dir |-> <<nX, nA>>] }  \* ../x/a/f

RawPaths == { Str(i.path) : i \in RawInputs }

InputOf(filePath) == CHOOSE i \in RawInputs : Str(i.path) = filePath

\* the paths read while invocations overlap: two levels deep, relative and
\* one level deep, directly in the worktree
OverlapPaths ==
    { Str(Abs(<<nW, nA, nB, nF>>)), Str(JoinWith(<<nA, nF>>)), Str(Abs(<<nW, nF>>)) }

SessionOrder == <<"s1", "s2">>
CallIdOrder  == <<"c1", "c2">>

Sessions == {SessionOrder[i] : i \in 1..Len(SessionOrder)}
CallIds  == {CallIdOrder[i] : i \in 1..Len(CallIdOrder)}

\* ------------------------------------------------------------------------
\* The filesystem: marker files at absolute paths
\* ------------------------------------------------------------------------

MarkerAt(dir) == Abs(dir \o <<AgentsMdName>>)

mRoot == MarkerAt(<<nW>>)
mA    == MarkerAt(<<nW, nA>>)
mAB   == MarkerAt(<<nW, nA, nB>>)
mCB   == MarkerAt(<<nW, nC, nB>>)
mDotA == MarkerAt(<<nW, nDotA>>)

\* markers that stay in place and readable: the root's own, those of a/b and
\* c/b (c itself has none), one in a directory whose name begins with two
\* dots, and those outside the worktree
FixedMarkers ==
    { mRoot, mAB, mCB, mDotA, MarkerAt(<<nW2>>), MarkerAt(<<nW2, nA>>),
      MarkerAt(<<nX>>), MarkerAt(<<nX, nA>>), MarkerAt(<<>>) }

\* the marker that other processes make unreadable and readable again
MutableMarkers == { mA }

FsPaths == FixedMarkers \union MutableMarkers

\* "unreadable": existsSync finds the path and readFileSync throws (the file
\* was removed in between, or it cannot be read)
FsStatus == {"file", "unreadable"}

MarkerStrings == {Str(m) : m \in FsPaths}

\* the characters of the strings the state holds
CharsOf ==
    [s \in MarkerStrings \union RawPaths |->
        CHOOSE cs \in FsPaths \union {i.path : i \in RawInputs} : Str(cs) = s]

\* the 'undefined' of a missing map entry or hook argument
Undefined == "undefined"

\* the tools of the host: the hooks tell "read" from the others
Tools == {"read", "edit"}

\* the file paths read through the hooks: one below a marker, one outside
\* the worktree
HookPaths == { Str(JoinWith(<<nA, nF>>)), Str(Abs(<<nW2, nA, nF>>)) }

\* output.args?.filePath: a string, or not one
HookFilePaths == HookPaths \union {Undefined}

NoHook == [name |-> "none", tool |-> "", callID |-> "", arg |-> ""]

\* what lastHook keeps of a hook invocation: the hook and input.tool, and for
\* the read tool input.callID and output.args?.filePath or input.sessionID
HookRecord(name, tool, callID, arg) ==
    [name   |-> name,
     tool   |-> tool,
     callID |-> IF tool = "read" THEN callID ELSE "",
     arg    |-> IF tool = "read" THEN arg ELSE ""]

HookRecords ==
    [name : {"none", "before", "after"}, tool : Tools \union {""},
     callID : CallIds \union {""}, arg : HookFilePaths \union Sessions \union {""}]

VARIABLES
    injectedPathsBySession,   \* Map<sessionId, Set<path>>: a function on the keys
    pendingFilePathByCallId,  \* Map<callId, filePath>: a function on the keys
    fs,                       \* the status of each mutable marker file
    calls,                    \* the handleFileReadComplete invocations so far
    stores,                   \* the number of storeFilePathForCall invocations so far
    consumed,                 \* the callIds completed and not stored again since
    overlap,                  \* the host invokes the after hook while an earlier
                              \* invocation is still suspended
    lastHook                  \* the most recent invocation of a plugin hook

vars == <<injectedPathsBySession, pendingFilePathByCallId, fs, calls, stores, consumed, overlap, lastHook>>

\* fs.existsSync
existsSync(p) == p \in FsPaths

\* readAgentsMdFile: TRUE when readFileSync returns the content, FALSE when
\* it throws and the function returns null
readAgentsMdFile(agentsMdPath) ==
    /\ agentsMdPath \in FsPaths
    /\ \A m \in DOMAIN fs : CharsOf[m] = agentsMdPath => fs[m] = "file"

\* ------------------------------------------------------------------------
\* AgentsMdInjector: the synchronous helpers
\* ------------------------------------------------------------------------

\* (mutant) the path is used as it was given
resolveNothing(filePath) == filePath

resolveToAbsolutePath(filePath) ==
    IF isAbsolute(filePath) THEN filePath ELSE join(<<Worktree, filePath>>)

\* the 'null' of getRelativePathFromWorktree
Null == <<"null">>

\* (mutant) the relative path is not tested for a leading ".."
getRelativePathUnchecked(absolutePath) ==
    IF ~startsWith(absolutePath, Worktree) THEN Null
    ELSE relative(Worktree, absolutePath)

getRelativePathFromWorktree(absolutePath) ==
    IF ~startsWith(absolutePath, Worktree) THEN Null
    ELSE LET relativePath == relative(Worktree, absolutePath)
         IN  IF startsWith(relativePath, nDot2) THEN Null ELSE relativePath

splitPathIntoSegments(relativePath) ==
    IF relativePath = <<>> \/ relativePath = <<".">> THEN <<>>
    ELSE SelectSeq(Split(relativePath), LAMBDA segment : segment # <<>> /\ segment # <<".">>)

\* (mutant) the walk starts at the worktree itself
FirstDepthAtWorktree == 1 - 1

\* the first depth the loop of findParentAgentsMdPaths visits
FirstDepth == 1

RECURSIVE walkDepthsLeafFirst(_, _, _)
\* (mutant) the walk collects the deepest marker first
walkDepthsLeafFirst(pathSegments, depth, agentsMdPaths) ==
    IF depth > Len(pathSegments) THEN agentsMdPaths
    ELSE LET partialPath  == JoinWith(SubSeq(pathSegments, 1, depth))
             agentsMdPath == join(<<Worktree, partialPath, AgentsMdName>>)
         IN  walkDepthsLeafFirst(pathSegments, depth + 1,
                                 IF existsSync(agentsMdPath)
                                 THEN <<agentsMdPath>> \o agentsMdPaths
                                 ELSE agentsMdPaths)

RECURSIVE walkDepths(_, _, _)
\* the for loop of findParentAgentsMdPaths
walkDepths(pathSegments, depth, agentsMdPaths) ==
    IF depth > Len(pathSegments) THEN agentsMdPaths
    ELSE LET partialPath  == JoinWith(SubSeq(pathSegments, 1, depth))
             agentsMdPath == join(<<Worktree, partialPath, AgentsMdName>>)
         IN  walkDepths(pathSegments, depth + 1,
                        IF existsSync(agentsMdPath)
                        THEN Append(agentsMdPaths, agentsMdPath)
                        ELSE agentsMdPaths)

findParentAgentsMdPaths(absoluteFilePath) ==
    LET fileDirectory     == dirname(absoluteFilePath)
        relativeDirectory == getRelativePathFromWorktree(fileDirectory)
    IN  IF relativeDirectory = Null THEN <<>>
        ELSE walkDepths(splitPathIntoSegments(relativeDirectory), FirstDepth, <<>>)

\* (mutant) a new empty set is stored whether or not the session has one
getOrCreateAlwaysNew(map, sessionId) ==
    [s \in DOMAIN map \union {sessionId} |-> IF s = sessionId THEN {} ELSE map[s]]

\* the map after getOrCreateInjectedPathsSet(sessionId); the set it returns
\* is the entry of sessionId in that map
getOrCreateInjectedPathsSet(map, sessionId) ==
    IF sessionId \in DOMAIN map THEN map ELSE map @@ (sessionId :> {})

\* (mutant) nothing is filtered
filterNothing(map, agentsMdPaths, sessionId) == agentsMdPaths

filterAlreadyInjectedPaths(map, agentsMdPaths, sessionId) ==
    LET injectedPaths == getOrCreateInjectedPathsSet(map, sessionId)[sessionId]
    IN  SelectSeq(agentsMdPaths, LAMBDA path : path \notin injectedPaths)

\* (mutant) one set of injected paths shared by the sessions
markPathAsInjectedInAll(map, sessionId, agentsMdPath) ==
    LET created == getOrCreateInjectedPathsSet(map, sessionId)
    IN  [s \in DOMAIN created |-> created[s] \union {agentsMdPath}]

markPathAsInjected(map, sessionId, agentsMdPath) ==
    LET created == getOrCreateInjectedPathsSet(map, sessionId)
    IN  [created EXCEPT ![sessionId] = @ \union {agentsMdPath}]

\* ------------------------------------------------------------------------
\* The markers a read in directory dir is meant to deliver: those that
\* exist at depths 1..n below the worktree (segment-wise, from the input's
\* directory; independent of the string handling above)
\* ------------------------------------------------------------------------

InsideWorktree(dir) == Len(dir) >= 1 /\ dir[1] = nW

AncestorMarkers(dir) ==
    IF InsideWorktree(dir)
    THEN [d \in 1..(Len(dir) - 1) |-> MarkerAt(SubSeq(dir, 1, d + 1))]
    ELSE <<>>

ExistingAncestorMarkers(dir) ==
    LET existing == SelectSeq(AncestorMarkers(dir), LAMBDA m : m \in FsPaths)
    IN  [k \in 1..Len(existing) |-> Str(existing[k])]

\* ------------------------------------------------------------------------
\* One invocation of handleFileReadComplete.  pc is where it is suspended:
\*   "log", "toast", "prompt"  awaiting client.app.log / client.tui.showToast /
\*                             client.session.prompt for Head(queue)
\*   "await"     injectAgentsMdContent returned for Head(queue); the loop's
\*               await resumes in a later microtask
\*   "done"      the promise is fulfilled
\*   "error"     the promise is rejected
\* queue is the rest of newAgentsMdPaths, the current marker first.  The other
\* fields record what the invocation did.
\* ------------------------------------------------------------------------

NewCall(sessionId) ==
    [ sessionId  |-> sessionId,
      pc         |-> "done",
      queue      |-> <<>>,
      hadPath    |-> FALSE,   \* a pending path was found for callId
      filePath   |-> Undefined,  \* that path
      found      |-> <<>>,    \* newAgentsMdPaths
      logged     |-> <<>>,    \* relative paths passed to client.app.log
      toasted    |-> <<>>,    \* relative paths passed to client.tui.showToast
      sent       |-> <<>>,    \* relative paths passed to client.session.prompt
      marked     |-> <<>>,    \* absolute paths passed to markPathAsInjected
      readFailed |-> {},      \* markers whose read returned null
      expected   |-> <<>>,    \* ExistingAncestorMarkers at the invocation
      had        |-> {} ]     \* the session's injected paths at the invocation

Settled(c) == c.pc \in {"done", "error"}

\* relative(this.worktree, agentsMdPath), for each marker
RelativeToWorktree == [s \in MarkerStrings |-> Str(relative(Worktree, CharsOf[s]))]

relativeAgentsMdPath(agentsMdPath) == RelativeToWorktree[agentsMdPath]

\* findParentAgentsMdPaths(resolveToAbsolutePath(filePath)), for each input
ParentAgentsMdPaths ==
    [filePath \in RawPaths |->
        LET found == findParentAgentsMdPaths(resolveToAbsolutePath(CharsOf[filePath]))
        IN  [k \in 1..Len(found) |-> Str(found[k])]]

\* ExistingAncestorMarkers of the directory of each input
ExpectedMarkers ==
    [filePath \in RawPaths |-> ExistingAncestorMarkers(InputOf(filePath).dir)]

\* (mutant) a failed read ends the loop
injectAgentsMdContentOrStop(c) ==
    LET agentsMdPath == Head(c.queue)
    IN  IF ~readAgentsMdFile(CharsOf[agentsMdPath])
        THEN [c EXCEPT !.pc = "await", !.queue = <<agentsMdPath>>,
                       !.readFailed = @ \union {agentsMdPath}]
        ELSE [c EXCEPT !.pc = "log",
                       !.logged = Append(@, relativeAgentsMdPath(agentsMdPath))]

\* injectAgentsMdContent up to its first await
injectAgentsMdContent(c) ==
    LET agentsMdPath == Head(c.queue)
    IN  IF ~readAgentsMdFile(CharsOf[agentsMdPath])
        THEN [c EXCEPT !.pc = "await", !.readFailed = @ \union {agentsMdPath}]
        ELSE [c EXCEPT !.pc = "log",
                       !.logged = Append(@, relativeAgentsMdPath(agentsMdPath))]

\* the head of the for loop of handleFileReadComplete
loopNext(c) ==
    IF c.queue = <<>> THEN [c EXCEPT !.pc = "done"] ELSE injectAgentsMdContent(c)

\* Identifiers are opaque to the injector, so the hooks' inputs are
\* enumerated up to renaming: an identifier is one already in use or the
\* first one not yet in use.
UsedCallIds == DOMAIN pendingFilePathByCallId \union consumed

UsedSessions == {calls[i].sessionId : i \in 1..Len(calls)}

FirstUnused(order, used) ==
    LET free == {i \in 1..Len(order) : order[i] \notin used}
    IN  IF free = {} THEN {}
        ELSE {order[CHOOSE i \in free : \A j \in free : i <= j]}

CallIdInputs == UsedCallIds \union FirstUnused(CallIdOrder, UsedCallIds)

SessionInputs == UsedSessions \union FirstUnused(SessionOrder, UsedSessions)

PathInputs == IF overlap THEN OverlapPaths ELSE RawPaths

TypeOK ==
    /\ DOMAIN injectedPathsBySession \subseteq Sessions
    /\ \A s \in DOMAIN injectedPathsBySession :
           injectedPathsBySession[s] \subseteq MarkerStrings
    /\ DOMAIN pendingFilePathByCallId \subseteq CallIds
    /\ \A c \in DOMAIN pendingFilePathByCallId : pendingFilePathByCallId[c] \in RawPaths
    /\ DOMAIN fs = {Str(m) : m \in MutableMarkers}
    /\ \A m \in DOMAIN fs : fs[m] \in FsStatus
    /\ Len(calls) <= MaxCalls
    /\ stores \in 0..MaxStores
    /\ consumed \subseteq CallIds
    /\ overlap \in BOOLEAN
    /\ lastHook \in HookRecords

Start ==
    /\ injectedPathsBySession = << >>
    /\ pendingFilePathByCallId = << >>
    /\ fs = [p \in {Str(m) : m \in MutableMarkers} |-> "file"]
    /\ calls = <<>>
    /\ stores = 0
    /\ consumed = {}
    /\ lastHook = NoHook

Init == Start /\ overlap = TRUE

\* the host awaits each after hook before it invokes the next
InitSeq == Start /\ overlap = FALSE

\* (mutant) an entry already there is kept
storeKeepsFirst(callId, filePath) ==
    /\ stores < MaxStores
    /\ stores' = stores + 1
    /\ pendingFilePathByCallId' =
           [c \in DOMAIN pendingFilePathByCallId \union {callId} |->
               IF c \in DOMAIN pendingFilePathByCallId
               THEN pendingFilePathByCallId[c] ELSE filePath]
    /\ consumed' = consumed \ {callId}
    /\ UNCHANGED <<injectedPathsBySession, fs, calls, overlap>>

\* storeFilePathForCall
storeFilePathForCall(callId, filePath) ==
    /\ stores < MaxStores
    /\ stores' = stores + 1
    /\ pendingFilePathByCallId' =
           [c \in DOMAIN pendingFilePathByCallId \union {callId} |->
               IF c = callId THEN filePath ELSE pendingFilePathByCallId[c]]
    /\ consumed' = consumed \ {callId}
    /\ UNCHANGED <<injectedPathsBySession, fs, calls, overlap>>

\* (mutant) the entry stays in the map
MapKeep(map, key) == map

\* Map.prototype.delete
MapDelete(map, key) == [k \in DOMAIN map \ {key} |-> map[k]]

\* (mutant) a missing key reads as the path of a file below a marker
MapGetOrDefault(map, key) ==
    IF key \in DOMAIN map THEN map[key] ELSE Str(JoinWith(<<nA, nF>>))

\* Map.prototype.get
MapGet(map, key) == IF key \in DOMAIN map THEN map[key] ELSE Undefined

\* handleFileReadComplete from its invocation to its first suspension
handleFileReadComplete(callId, sessionId) ==
    /\ Len(calls) < MaxCalls
    /\ overlap \/ \A i \in 1..Len(calls) : Settled(calls[i])
    /\ pendingFilePathByCallId' = MapDelete(pendingFilePathByCallId, callId)
    /\ LET base     == NewCall(sessionId)
           filePath == MapGet(pendingFilePathByCallId, callId)
       IN  IF filePath = Undefined
           THEN /\ calls' = Append(calls, base)
                /\ UNCHANGED injectedPathsBySession
           ELSE LET parentAgentsMdPaths == ParentAgentsMdPaths[filePath]
                    newAgentsMdPaths    ==
                        filterAlreadyInjectedPaths(injectedPathsBySession,
                                                   parentAgentsMdPaths, sessionId)
                    c == [base EXCEPT
                            !.hadPath    = TRUE,
                            !.filePath   = filePath,
                            !.queue      = newAgentsMdPaths,
                            !.found      = newAgentsMdPaths,
                            !.expected   = ExpectedMarkers[filePath],
                            !.had        =
                                IF sessionId \in DOMAIN injectedPathsBySession
                                THEN injectedPathsBySession[sessionId] ELSE {}]
                IN  /\ injectedPathsBySession' =
                           getOrCreateInjectedPathsSet(injectedPathsBySession, sessionId)
                    /\ calls' = Append(calls, loopNext(c))
    /\ consumed' = consumed \union {callId}
    /\ UNCHANGED <<fs, stores, overlap>>

\* (mutant) after the log call the prompt call is made, and no toast
LogReturnsSkipsToast(i, ok) ==
    /\ i \in 1..Len(calls)
    /\ calls[i].pc = "log"
    /\ calls' = [calls EXCEPT ![i] =
           IF ok
           THEN [@ EXCEPT !.pc = "prompt",
                          !.sent = Append(@, relativeAgentsMdPath(Head(calls[i].queue)))]
           ELSE [@ EXCEPT !.pc = "error"]]
    /\ UNCHANGED <<injectedPathsBySession, pendingFilePathByCallId, fs, stores, consumed, overlap, lastHook>>

\* client.app.log settles; on success showInjectionToast calls showToast
LogReturns(i, ok) ==
    /\ i \in 1..Len(calls)
    /\ calls[i].pc = "log"
    /\ calls' = [calls EXCEPT ![i] =
           IF ok
           THEN [@ EXCEPT !.pc = "toast",
                          !.toasted = Append(@, relativeAgentsMdPath(Head(calls[i].queue)))]
           ELSE [@ EXCEPT !.pc = "error"]]
    /\ UNCHANGED <<injectedPathsBySession, pendingFilePathByCallId, fs, stores, consumed, overlap, lastHook>>

\* client.tui.showToast settles; on success sendContextToSession calls prompt
ToastReturns(i, ok) ==
    /\ i \in 1..Len(calls)
    /\ calls[i].pc = "toast"
    /\ calls' = [calls EXCEPT ![i] =
           IF ok
           THEN [@ EXCEPT !.pc = "prompt",
                          !.sent = Append(@, relativeAgentsMdPath(Head(calls[i].queue)))]
           ELSE [@ EXCEPT !.pc = "error"]]
    /\ UNCHANGED <<injectedPathsBySession, pendingFilePathByCallId, fs, stores, consumed, overlap, lastHook>>

\* (mutant) the path is marked whether or not the prompt call succeeded
PromptReturnsAlwaysMarks(i, ok) ==
    /\ i \in 1..Len(calls)
    /\ calls[i].pc = "prompt"
    /\ injectedPathsBySession' =
           markPathAsInjected(injectedPathsBySession, calls[i].sessionId,
                              Head(calls[i].queue))
    /\ calls' = [calls EXCEPT ![i] = [@ EXCEPT !.pc = IF ok THEN "await" ELSE "error"]]
    /\ UNCHANGED <<pendingFilePathByCallId, fs, stores, consumed, overlap, lastHook>>

\* client.session.prompt settles; on success the path is marked and
\* injectAgentsMdContent returns
PromptReturns(i, ok) ==
    /\ i \in 1..Len(calls)
    /\ calls[i].pc = "prompt"
    /\ IF ok
       THEN /\ injectedPathsBySession' =
                   markPathAsInjected(injectedPathsBySession, calls[i].sessionId,
                                      Head(calls[i].queue))
            /\ calls' = [calls EXCEPT ![i] =
                   [@ EXCEPT !.pc = "await",
                             !.marked = Append(@, Head(calls[i].queue))]]
       ELSE /\ calls' = [calls EXCEPT ![i] = [@ EXCEPT !.pc = "error"]]
            /\ UNCHANGED injectedPathsBySession
    /\ UNCHANGED <<pendingFilePathByCallId, fs, stores, consumed, overlap, lastHook>>

\* the await of the for loop resumes: the next marker, or the end of the loop
LoopResumes(i) ==
    /\ i \in 1..Len(calls)
    /\ calls[i].pc = "await"
    /\ calls' = [calls EXCEPT ![i] = loopNext([@ EXCEPT !.queue = Tail(@)])]
    /\ UNCHANGED <<injectedPathsBySession, pendingFilePathByCallId, fs, stores, consumed, overlap, lastHook>>

\* another process makes a marker file unreadable, or readable again
FsChange(m, status) ==
    /\ m \in DOMAIN fs
    /\ fs[m] # status
    /\ fs' = [fs EXCEPT ![m] = status]
    /\ UNCHANGED <<injectedPathsBySession, pendingFilePathByCallId, calls, stores, consumed, overlap, lastHook>>

\* the injector's two methods, invoked directly
Next ==
    \/ \E callId \in CallIdInputs, filePath \in PathInputs :
           storeFilePathForCall(callId, filePath) /\ UNCHANGED lastHook
    \/ \E callId \in CallIdInputs, sessionId \in SessionInputs :
           handleFileReadComplete(callId, sessionId) /\ UNCHANGED lastHook
    \/ \E i \in 1..MaxCalls, ok \in BOOLEAN : LogReturns(i, ok)
    \/ \E i \in 1..MaxCalls, ok \in BOOLEAN : ToastReturns(i, ok)
    \/ \E i \in 1..MaxCalls, ok \in BOOLEAN : PromptReturns(i, ok)
    \/ \E i \in 1..MaxCalls : LoopResumes(i)
    \/ \E m \in DOMAIN fs, status \in FsStatus : FsChange(m, status)

Spec == Init /\ [][Next]_vars

SpecSeq == InitSeq /\ [][Next]_vars

\* ------------------------------------------------------------------------
\* The plugin's hooks (src/src/index.ts)
\* ------------------------------------------------------------------------

\* (mutant) the hooks act on every tool
isAnyTool(tool) == TRUE

\* input.tool !== "read" is the early return of both hooks
isReadTool(tool) == tool = "read"

\* typeof filePath === "string"
isString(filePath) == filePath # Undefined

\* "tool.execute.before"
toolExecuteBefore(tool, callID, filePath) ==
    /\ lastHook' = HookRecord("before", tool, callID, filePath)
    /\ IF ~isReadTool(tool) \/ ~isString(filePath)
       THEN UNCHANGED <<injectedPathsBySession, pendingFilePathByCallId, fs, calls,
                        stores, consumed, overlap>>
       ELSE storeFilePathForCall(callID, filePath)

\* "tool.execute.after", up to the first suspension of handleFileReadComplete
toolExecuteAfter(tool, callID, sessionID) ==
    /\ lastHook' = HookRecord("after", tool, callID, sessionID)
    /\ IF ~isReadTool(tool)
       THEN UNCHANGED <<injectedPathsBySession, pendingFilePathByCallId, fs, calls,
                        stores, consumed, overlap>>
       ELSE handleFileReadComplete(callID, sessionID)

\* the injector driven through the hooks
NextHooks ==
    \/ \E tool \in Tools, callID \in CallIdInputs, filePath \in HookFilePaths :
           toolExecuteBefore(tool, callID, filePath)
    \/ \E tool \in Tools, callID \in CallIdInputs, sessionID \in SessionInputs :
           toolExecuteAfter(tool, callID, sessionID)
    \/ \E i \in 1..MaxCalls, ok \in BOOLEAN : LogReturns(i, ok)
    \/ \E i \in 1..MaxCalls, ok \in BOOLEAN : ToastReturns(i, ok)
    \/ \E i \in 1..MaxCalls, ok \in BOOLEAN : PromptReturns(i, ok)
    \/ \E i \in 1..MaxCalls : LoopResumes(i)
    \/ \E m \in DOMAIN fs, status \in FsStatus : FsChange(m, status)

SpecHooks == InitSeq /\ [][NextHooks]_vars

\* ------------------------------------------------------------------------
\* No failures, and every awaited call returns
\* ------------------------------------------------------------------------

\* either way of invoking the after hooks
InitAny == Start /\ overlap \in BOOLEAN

\* the awaited call of invocation i returns, or its loop resumes
Resume(i) ==
    \/ LogReturns(i, TRUE)
    \/ ToastReturns(i, TRUE)
    \/ PromptReturns(i, TRUE)
    \/ LoopResumes(i)

\* every file is read and every channel call succeeds
NextOk ==
    \/ \E callId \in CallIdInputs, filePath \in PathInputs :
           storeFilePathForCall(callId, filePath) /\ UNCHANGED lastHook
    \/ \E callId \in CallIdInputs, sessionId \in SessionInputs :
           handleFileReadComplete(callId, sessionId) /\ UNCHANGED lastHook
    \/ \E i \in 1..MaxCalls : Resume(i)

\* the event loop runs every continuation whose awaited promise is fulfilled
SpecFair ==
    InitAny /\ [][NextOk]_vars /\ \A i \in 1..MaxCalls : WF_vars(Resume(i))

\* ------------------------------------------------------------------------
\* Vocabulary of the properties
\* ------------------------------------------------------------------------

Range(q) == {q[k] : k \in 1..Len(q)}

\* the path of a marker below the worktree, as log, toast and prompt name it
Label(m) == Str(SubSeq(m, Len(Worktree) + 2, Len(m)))

sRoot == Str(mRoot)
sA    == Str(mA)
sAB   == Str(mAB)
sDotA == Str(mDotA)

InRootMarkers == {mRoot, mA, mAB, mCB, mDotA}

LabelOf == [s \in {Str(m) : m \in InRootMarkers} |-> Label(CharsOf[s])]

CallIndex == 1..Len(calls)

\* the prompt calls, as <<invocation, position>>, that name label to sessionId
PromptCalls(sessionId, label) ==
    {ik \in CallIndex \X (1..2) :
        /\ calls[ik[1]].sessionId = sessionId
        /\ ik[2] <= Len(calls[ik[1]].sent)
        /\ calls[ik[1]].sent[ik[2]] = label}

\* ------------------------------------------------------------------------
\* C1: a marker is delivered (client.session.prompt is called for it) to a
\* session at most once, whatever the number and interleaving of the
\* handleFileReadComplete invocations of that session.
\* ------------------------------------------------------------------------
C1_DeliveredAtMostOnce ==
    \A sessionId \in Sessions, m \in InRootMarkers :
        Cardinality(PromptCalls(sessionId, Label(m))) <= 1

\* ------------------------------------------------------------------------
\* C2: handleFileReadComplete (and the after hook that awaits it) never
\* ends in an error, whatever fails inside it.
\* ------------------------------------------------------------------------
C2_NeverRejects == \A i \in CallIndex : calls[i].pc # "error"

\* ------------------------------------------------------------------------
\* C3: a failure of log, toast or prompt on one marker does not keep the
\* deeper markers of the same invocation from being processed: an invocation
\* never settles with markers after the failed one left unprocessed.
\* ------------------------------------------------------------------------
C3_FailureDoesNotStopBatch ==
    \A i \in CallIndex :
        Settled(calls[i]) =>
            Len(calls[i].queue) <= (IF calls[i].pc = "error" THEN 1 ELSE 0)

\* ------------------------------------------------------------------------
\* C4: the worktree's own AGENTS.md is never logged, toasted, delivered,
\* queued or marked, for any session; and a read of a file that has no
\* marker to expect (a file directly in the worktree) delivers nothing.
\* ------------------------------------------------------------------------
C4_RootMarkerNeverDelivered ==
    /\ \A i \in CallIndex :
          /\ LabelOf[sRoot] \notin
                 Range(calls[i].logged) \union Range(calls[i].toasted)
                     \union Range(calls[i].sent)
          /\ sRoot \notin Range(calls[i].found) \union Range(calls[i].marked)
          /\ calls[i].expected = <<>> => calls[i].logged = <<>> /\ calls[i].sent = <<>>
    /\ \A s \in DOMAIN injectedPathsBySession : sRoot \notin injectedPathsBySession[s]

\* a read directly in the worktree has completed with nothing delivered while
\* another invocation has delivered an ancestor marker
C4_Witness ==
    \E i, j \in CallIndex :
        /\ calls[i].hadPath /\ calls[i].expected = <<>> /\ calls[i].pc = "done"
        /\ calls[i].sent = <<>>
        /\ calls[j].sent # <<>>

\* ------------------------------------------------------------------------
\* C5: the deliveries of one invocation are in root-to-leaf order, also
\* while other invocations deliver in between.
\* ------------------------------------------------------------------------

InRootDirs == {<<nW>>, <<nW, nA>>, <<nW, nA, nB>>, <<nW, nC, nB>>, <<nW, nDotA>>}

\* the number of directories between the worktree and the marker a label names
DepthOfLabel ==
    [l \in {Label(MarkerAt(d)) : d \in InRootDirs} |->
        CHOOSE n \in 0..3 : \E d \in InRootDirs : Label(MarkerAt(d)) = l /\ n = Len(d) - 1]

C5_RootToLeafOrder ==
    \A i \in CallIndex :
        \A k, l \in 1..Len(calls[i].sent) :
            k < l => DepthOfLabel[calls[i].sent[k]] < DepthOfLabel[calls[i].sent[l]]

\* an invocation has delivered two markers while a later invocation of the
\* same session, begun between the two, has delivered too
C5_Witness ==
    \E i, j \in CallIndex :
        /\ i < j
        /\ calls[i].sessionId = calls[j].sessionId
        /\ Len(calls[i].sent) = 2
        /\ calls[j].found = <<sAB>>
        /\ calls[j].sent # <<>>

\* ------------------------------------------------------------------------
\* C6: an invocation of a session that had nothing injected, with every
\* read and every channel call succeeding, delivers exactly the markers that
\* exist at depths 1..n of the directory of the file, one delivery each, in
\* order.
\* ------------------------------------------------------------------------
C6_DeliversExistingAncestors ==
    \A i \in CallIndex :
        (/\ calls[i].pc = "done"
         /\ calls[i].hadPath
         /\ calls[i].had = {}
         /\ calls[i].readFailed = {})
        => calls[i].sent =
               [k \in 1..Len(calls[i].expected) |-> LabelOf[calls[i].expected[k]]]

\* ------------------------------------------------------------------------
\* C7: once handleFileReadComplete has run for a callId, a further
\* handleFileReadComplete for that callId with no storeFilePathForCall in
\* between (for any session, also while the first is still suspended) makes
\* no log, toast or prompt call and leaves both maps as they are.
\* ------------------------------------------------------------------------
NewCallStep == Len(calls') = Len(calls) + 1

C7_Step ==
    (NewCallStep /\ consumed' = consumed) =>
        /\ pendingFilePathByCallId' = pendingFilePathByCallId
        /\ injectedPathsBySession' = injectedPathsBySession
        /\ LET c == calls'[Len(calls')]
           IN  /\ ~c.hadPath
               /\ c.pc = "done"
               /\ c.logged = <<>> /\ c.toasted = <<>> /\ c.sent = <<>>

C7_SecondCompleteIsNoOp ==
    /\ [](consumed \cap DOMAIN pendingFilePathByCallId = {})
    /\ [][C7_Step]_vars

\* after a single storeFilePathForCall, a second invocation (which is then
\* for the same callId) has returned while the first is suspended after its
\* log call
C7_Witness ==
    /\ stores = 1
    /\ Len(calls) = 2
    /\ calls[1].hadPath /\ calls[1].logged # <<>> /\ ~Settled(calls[1])
    /\ ~calls[2].hadPath /\ calls[2].pc = "done"

\* ------------------------------------------------------------------------
\* C8: the injected paths are kept per session: only the invocations of a
\* session change that session's entry, every path in an entry was marked by
\* an invocation of that session, and a marker already delivered to one
\* session is still delivered to another that reads below it.
\* ------------------------------------------------------------------------
EntryChanged(s) ==
    \/ (s \in DOMAIN injectedPathsBySession) # (s \in DOMAIN injectedPathsBySession')
    \/ /\ s \in DOMAIN injectedPathsBySession
       /\ s \in DOMAIN injectedPathsBySession'
       /\ injectedPathsBySession[s] # injectedPathsBySession'[s]

C8_Frame ==
    \A s \in Sessions :
        EntryChanged(s) =>
            \E i \in 1..Len(calls') :
                /\ calls'[i].sessionId = s
                /\ i > Len(calls) \/ calls'[i] # calls[i]

C8_Own ==
    \A s \in DOMAIN injectedPathsBySession :
        \A m \in injectedPathsBySession[s] :
            \E i \in CallIndex : calls[i].sessionId = s /\ m \in Range(calls[i].marked)

C8_StillDelivered ==
    \A i, j \in CallIndex :
        \A m \in Range(calls[i].marked) :
            (/\ calls[i].sessionId # calls[j].sessionId
             /\ calls[j].pc = "done"
             /\ m \notin calls[j].had
             /\ m \notin calls[j].readFailed
             /\ m \in Range(calls[j].expected))
            => LabelOf[m] \in Range(calls[j].sent)

C8_PerSession == [](C8_Own /\ C8_StillDelivered) /\ [][C8_Frame]_vars

\* the same marker has been delivered to, and marked for, both sessions
C8_Witness ==
    \E i, j \in CallIndex :
        /\ calls[i].sessionId # calls[j].sessionId
        /\ sA \in Range(calls[i].marked)
        /\ sA \in Range(calls[j].marked)
        /\ \A s \in Sessions :
               s \in DOMAIN injectedPathsBySession /\ sA \in injectedPathsBySession[s]

\* ------------------------------------------------------------------------
\* C9: when the invocations do not overlap, a marker that an earlier
\* invocation of a session delivered and marked is not logged, toasted or
\* delivered by any later invocation of that session.
\* ------------------------------------------------------------------------
C9_NoRepeatWithoutOverlap ==
    \A i, j \in CallIndex :
        (i < j /\ calls[i].sessionId = calls[j].sessionId) =>
            \A m \in Range(calls[i].marked) :
                LabelOf[m] \notin
                    Range(calls[j].logged) \union Range(calls[j].toasted)
                        \union Range(calls[j].sent)

\* a later invocation of the session has completed a read below a marker
\* that an earlier one delivered
C9_Witness ==
    \E i, j \in CallIndex :
        /\ i < j
        /\ calls[i].sessionId = calls[j].sessionId
        /\ calls[j].hadPath /\ calls[j].pc = "done"
        /\ \E m \in Range(calls[i].marked) : m \in Range(calls[j].expected)

\* ------------------------------------------------------------------------
\* C10: a marker whose read fails is not logged, toasted, delivered or
\* marked by that invocation, and is in the session's entry only if another
\* invocation marked it; the invocation still processes the remaining
\* markers in order; a later invocation whose read succeeds delivers it.
\* ------------------------------------------------------------------------
C10_FailedReadSkipped ==
    \A i \in CallIndex :
        /\ \A m \in calls[i].readFailed :
              /\ LabelOf[m] \notin
                     Range(calls[i].logged) \union Range(calls[i].toasted)
                         \union Range(calls[i].sent)
              /\ m \notin Range(calls[i].marked)
              /\ (/\ calls[i].sessionId \in DOMAIN injectedPathsBySession
                  /\ m \in injectedPathsBySession[calls[i].sessionId])
                 => \E j \in CallIndex \ {i} :
                        /\ calls[j].sessionId = calls[i].sessionId
                        /\ m \in Range(calls[j].marked)
        /\ calls[i].pc = "done" =>
              LET rest == SelectSeq(calls[i].found, LAMBDA m : m \notin calls[i].readFailed)
              IN  calls[i].sent = [k \in 1..Len(rest) |-> LabelOf[rest[k]]]
        /\ \A j \in CallIndex : \A m \in calls[i].readFailed :
              (/\ i < j
               /\ calls[j].sessionId = calls[i].sessionId
               /\ calls[j].pc = "done"
               /\ m \in Range(calls[j].expected)
               /\ m \notin calls[j].had
               /\ m \notin calls[j].readFailed)
              => LabelOf[m] \in Range(calls[j].sent)

\* the read of a/AGENTS.md failed in one invocation, which went on to deliver
\* a/b/AGENTS.md, and a later invocation of the session delivered a/AGENTS.md
C10_Witness ==
    \E i, j \in CallIndex :
        /\ i < j
        /\ calls[i].sessionId = calls[j].sessionId
        /\ sA \in calls[i].readFailed
        /\ LabelOf[sAB] \in Range(calls[i].sent)
        /\ LabelOf[sA] \in Range(calls[j].sent)

\* ------------------------------------------------------------------------
\* C11: an invocation for a recorded path whose directory is not inside the
\* worktree (an unrelated absolute path, or a relative path that leaves the
\* worktree through "..") finds no marker, makes no log, toast or prompt
\* call, marks nothing and is fulfilled, whatever marker files exist.
\* ------------------------------------------------------------------------
OutsidePaths == {p \in RawPaths : ~InsideWorktree(InputOf(p).dir)}

C11_OutsideRootSilent ==
    \A i \in CallIndex :
        calls[i].filePath \in OutsidePaths =>
            /\ calls[i].pc = "done"
            /\ calls[i].found = <<>>
            /\ calls[i].logged = <<>> /\ calls[i].toasted = <<>> /\ calls[i].sent = <<>>
            /\ calls[i].marked = <<>>

\* both kinds of outside path have been completed, with markers present in
\* the directories they name
C11_Witness ==
    /\ Len(calls) = 2
    /\ calls[1].filePath = Str(Abs(<<nW2, nA, nF>>))
    /\ calls[2].filePath = Str(JoinWith(<<nDot2, nX, nA, nF>>))
    /\ calls[1].pc = "done" /\ calls[2].pc = "done"
    /\ MarkerAt(<<nW2, nA>>) \in FsPaths /\ MarkerAt(<<nX, nA>>) \in FsPaths

\* ------------------------------------------------------------------------
\* C12: handleFileReadComplete for a callId that has no pending entry (the
\* step removes no key of the pending map) returns at once: no log, toast or
\* prompt call, no error, and the pending map and the injected paths,
\* session keys included, stay as they are.
\* ------------------------------------------------------------------------
C12_Step ==
    (NewCallStep /\ DOMAIN pendingFilePathByCallId \subseteq DOMAIN pendingFilePathByCallId') =>
        /\ pendingFilePathByCallId' = pendingFilePathByCallId
        /\ injectedPathsBySession' = injectedPathsBySession
        /\ DOMAIN injectedPathsBySession' = DOMAIN injectedPathsBySession
        /\ LET c == calls'[Len(calls')]
           IN  /\ c.filePath = Undefined
               /\ c.pc = "done"
               /\ c.found = <<>>
               /\ c.logged = <<>> /\ c.toasted = <<>> /\ c.sent = <<>> /\ c.marked = <<>>

C12_Returned ==
    \A i \in CallIndex :
        calls[i].filePath = Undefined =>
            /\ calls[i].pc = "done"
            /\ calls[i].logged = <<>> /\ calls[i].toasted = <<>> /\ calls[i].sent = <<>>

C12_AbsentOpIsNoOp == []C12_Returned /\ [][C12_Step]_vars

\* an invocation for a callId never recorded has returned, for a session
\* that still has no entry, while another invocation is suspended
C12_Witness ==
    \E i, j \in CallIndex :
        /\ calls[i].filePath = Undefined
        /\ calls[i].sessionId \notin DOMAIN injectedPathsBySession
        /\ ~Settled(calls[j])
        /\ stores = 1

\* ------------------------------------------------------------------------
\* C13: an invocation for a relative path r does what an invocation for
\* join(worktree, r) does from the same state: the same markers found and
\* queued, the same first log call or return, the same injected paths.  From
\* there on the two go through the same steps, which depend on the path only
\* through the queue.
\* ------------------------------------------------------------------------
RelativePaths == {p \in RawPaths : CharsOf[p][1] # sep}

AbsoluteEquivalent(r) == join(<<Worktree, r>>)

\* what the injector finds for the absolute equivalent of each relative input
ParentsOfAbsoluteEquivalent ==
    [r \in RelativePaths |->
        LET found == findParentAgentsMdPaths(
                         resolveToAbsolutePath(AbsoluteEquivalent(CharsOf[r])))
        IN  [k \in 1..Len(found) |-> Str(found[k])]]

ComparedFields == {"sessionId", "pc", "queue", "found", "logged", "toasted", "sent",
                   "marked", "readFailed"}

C13_Step ==
    (NewCallStep /\ calls'[Len(calls')].filePath \in RelativePaths) =>
        LET c   == calls'[Len(calls')]
            new == filterAlreadyInjectedPaths(injectedPathsBySession,
                       ParentsOfAbsoluteEquivalent[c.filePath], c.sessionId)
            d   == loopNext([NewCall(c.sessionId) EXCEPT !.queue = new, !.found = new])
        IN  /\ \A f \in ComparedFields : c[f] = d[f]
            /\ injectedPathsBySession' =
                   getOrCreateInjectedPathsSet(injectedPathsBySession, c.sessionId)

C13_RelativeAsAbsolute == [][C13_Step]_vars

\* a relative path below a marker has been completed with its delivery, and
\* a relative path that leaves the worktree has been completed
C13_Witness ==
    /\ Len(calls) = 2
    /\ calls[1].filePath = Str(JoinWith(<<nA, nF>>))
    /\ calls[1].pc = "done" /\ calls[1].sent = <<LabelOf[sA]>>
    /\ calls[2].filePath = Str(JoinWith(<<nDot2, nX, nA, nF>>))
    /\ calls[2].pc = "done"

\* ------------------------------------------------------------------------
\* C14: the hooks act on the read tool only.  A hook invoked for another tool
\* changes neither map and starts no invocation; an entry enters the pending
\* map only by a before hook of the read tool with that callID and string
\* path; an invocation starts only by an after hook of the read tool, for the
\* hook's sessionID and the path pending under the hook's callID; and such an
\* invocation, when it is fulfilled with every read succeeding, has delivered
\* the markers of the path that the session did not have yet.
\* ------------------------------------------------------------------------
C14_OtherToolsIgnored ==
    (lastHook' # lastHook /\ lastHook'.tool # "read") =>
        /\ pendingFilePathByCallId' = pendingFilePathByCallId
        /\ injectedPathsBySession' = injectedPathsBySession
        /\ calls' = calls
        /\ stores' = stores

C14_Recorded ==
    \A k \in DOMAIN pendingFilePathByCallId' :
        (k \notin DOMAIN pendingFilePathByCallId
            \/ pendingFilePathByCallId'[k] # pendingFilePathByCallId[k])
        => /\ lastHook' = HookRecord("before", "read", k, pendingFilePathByCallId'[k])
           /\ pendingFilePathByCallId'[k] # Undefined

C14_Completed ==
    NewCallStep =>
        LET c == calls'[Len(calls')]
        IN  /\ lastHook'.name = "after" /\ lastHook'.tool = "read"
            /\ c.sessionId = lastHook'.arg
            /\ c.filePath = MapGet(pendingFilePathByCallId, lastHook'.callID)
            /\ lastHook'.callID \notin DOMAIN pendingFilePathByCallId'

C14_Delivered ==
    \A i \in CallIndex :
        (calls[i].pc = "done" /\ calls[i].hadPath /\ calls[i].readFailed = {}) =>
            LET new == SelectSeq(calls[i].expected, LAMBDA m : m \notin calls[i].had)
            IN  calls[i].sent = [k \in 1..Len(new) |-> LabelOf[new[k]]]

C14_HooksActOnReadOnly ==
    /\ []C14_Delivered
    /\ [][C14_OtherToolsIgnored /\ C14_Recorded /\ C14_Completed]_vars

\* a before/after pair of the read tool has delivered a/AGENTS.md, and the
\* most recent hook is an after hook of another tool, invoked while a path
\* is pending
C14_Witness ==
    /\ lastHook.name = "after" /\ lastHook.tool = "edit"
    /\ DOMAIN pendingFilePathByCallId # {}
    /\ \E i \in CallIndex :
           /\ calls[i].pc = "done"
           /\ calls[i].filePath = Str(JoinWith(<<nA, nF>>))
           /\ calls[i].sent = <<LabelOf[sA]>>

\* ------------------------------------------------------------------------
\* C15: a log entry or a toast for a marker is emitted only for an injection
\* that succeeds: once an invocation has settled, every marker it logged or
\* toasted is one whose prompt call it made and saw return.
\* ------------------------------------------------------------------------
Delivered(c) == {LabelOf[m] : m \in Range(c.marked)}

C15_LogToastOnlyWithDelivery ==
    \A i \in CallIndex :
        Settled(calls[i]) =>
            Range(calls[i].logged) \union Range(calls[i].toasted) \subseteq Delivered(calls[i])

\* ------------------------------------------------------------------------
\* C16: a session has an entry in injectedPathsBySession only if at least
\* one marker has been delivered to it: an invocation that finds no marker,
\* or whose markers all fail, creates no entry.
\* ------------------------------------------------------------------------
C16_EntryOnlyAfterDelivery ==
    \A s \in DOMAIN injectedPathsBySession :
        \E i \in CallIndex : calls[i].sessionId = s /\ calls[i].marked # <<>>

\* ------------------------------------------------------------------------
\* C17: every path in a session's set of injected paths was read, logged,
\* toasted and delivered to that session by an invocation whose prompt call
\* for it returned; a marker whose read, log, toast or prompt call failed in
\* an invocation is not marked by that invocation, and is in the set only
\* if another invocation of the session delivered it.
\* ------------------------------------------------------------------------

\* invocation i made the prompt call for m and saw it return
CompletedDelivery(i, m) ==
    \E k \in 1..Len(calls[i].marked) :
        /\ calls[i].marked[k] = m
        /\ k <= Len(calls[i].sent) /\ calls[i].sent[k] = LabelOf[m]
        /\ k <= Len(calls[i].toasted) /\ calls[i].toasted[k] = LabelOf[m]
        /\ k <= Len(calls[i].logged) /\ calls[i].logged[k] = LabelOf[m]
        /\ m \notin calls[i].readFailed

\* the markers on which invocation i failed
FailedMarkers(i) ==
    calls[i].readFailed \union
        (IF calls[i].pc = "error" THEN {Head(calls[i].queue)} ELSE {})

C17_InjectedWereDelivered ==
    /\ \A s \in DOMAIN injectedPathsBySession :
           \A m \in injectedPathsBySession[s] :
               \E i \in CallIndex : calls[i].sessionId = s /\ CompletedDelivery(i, m)
    /\ \A i \in CallIndex :
           \A m \in FailedMarkers(i) :
               /\ m \notin Range(calls[i].marked)
               /\ (/\ calls[i].sessionId \in DOMAIN injectedPathsBySession
                   /\ m \in injectedPathsBySession[calls[i].sessionId])
                  => \E j \in CallIndex \ {i} :
                         calls[j].sessionId = calls[i].sessionId /\ CompletedDelivery(j, m)

\* the prompt call for a/AGENTS.md was rejected in one invocation, and the
\* path is in the session's set because another invocation delivered it
C17_Witness ==
    \E i, j \in CallIndex :
        /\ i # j
        /\ calls[i].sessionId = calls[j].sessionId
        /\ calls[i].pc = "error"
        /\ calls[i].sent = <<LabelOf[sA]>>
        /\ sA \in Range(calls[j].marked)
        /\ sA \in injectedPathsBySession[calls[i].sessionId]

\* ------------------------------------------------------------------------
\* C18: with no read and no channel call failing and every awaited call
\* returning, every invocation for a recorded path inside the worktree is
\* eventually fulfilled, and from then on every existing marker at depth
\* >= 1 above the file is in the session's set of injected paths (put there
\* by this invocation or by another), also when invocations overlap.
\* ------------------------------------------------------------------------
InRootCall(i) ==
    /\ i <= Len(calls)
    /\ calls[i].hadPath
    /\ InsideWorktree(InputOf(calls[i].filePath).dir)

FinishedAndInjected(i) ==
    /\ i <= Len(calls)
    /\ calls[i].pc = "done"
    /\ \A m \in Range(calls[i].expected) :
           /\ calls[i].sessionId \in DOMAIN injectedPathsBySession
           /\ m \in injectedPathsBySession[calls[i].sessionId]

C18_EventuallyInjected ==
    \A i \in 1..MaxCalls : InRootCall(i) ~> []FinishedAndInjected(i)

\* ------------------------------------------------------------------------
\* C19: for each marker an invocation goes through log, toast, prompt and
\* mark in that order, one step at a time: the markers marked are the first
\* of those prompted, those the first of those toasted, those the first of
\* those logged, each marker named once, and at most one marker is between
\* its log call and its mark; a path enters a session's set only in the step
\* in which the prompt call for it returns to an invocation of that session.
\* ------------------------------------------------------------------------
IsPrefix(p, q) == Len(p) <= Len(q) /\ \A k \in 1..Len(p) : p[k] = q[k]

\* how many markers invocation c has logged, toasted, prompted, marked
StageLengths(c) == <<Len(c.logged), Len(c.toasted), Len(c.sent), Len(c.marked)>>

C19_Order ==
    \A i \in CallIndex :
        LET c == calls[i]
            n == Len(c.marked)
        IN  /\ IsPrefix([k \in 1..n |-> LabelOf[c.marked[k]]], c.sent)
            /\ IsPrefix(c.sent, c.toasted)
            /\ IsPrefix(c.toasted, c.logged)
            /\ \A k, l \in 1..Len(c.logged) : k < l => c.logged[k] # c.logged[l]
            /\ c.pc = "log" => StageLengths(c) = <<n + 1, n, n, n>>
            /\ c.pc = "toast" => StageLengths(c) = <<n + 1, n + 1, n, n>>
            /\ c.pc = "prompt" => StageLengths(c) = <<n + 1, n + 1, n + 1, n>>
            /\ c.pc \in {"await", "done"} => StageLengths(c) = <<n, n, n, n>>
            /\ c.pc = "error" =>
                   StageLengths(c) \in {<<n + 1, n, n, n>>, <<n + 1, n + 1, n, n>>,
                                        <<n + 1, n + 1, n + 1, n>>}

C19_MarkAfterDelivery ==
    \A s \in DOMAIN injectedPathsBySession' :
        \A m \in injectedPathsBySession'[s] :
            (s \notin DOMAIN injectedPathsBySession \/ m \notin injectedPathsBySession[s]) =>
                \E i \in CallIndex :
                    /\ calls[i].sessionId = s
                    /\ calls[i].pc = "prompt"
                    /\ Head(calls[i].queue) = m
                    /\ calls[i].sent[Len(calls[i].sent)] = LabelOf[m]
                    /\ calls'[i].pc = "await"
                    /\ calls'[i].marked = Append(calls[i].marked, m)

C19_StepOrder == []C19_Order /\ [][C19_MarkAfterDelivery]_vars

\* one invocation has delivered and marked two markers while another is
\* between its toast call and its prompt call
C19_Witness ==
    \E i, j \in CallIndex :
        /\ Len(calls[i].marked) = 2 /\ calls[i].pc = "done"
        /\ calls[j].pc = "toast"

\* ------------------------------------------------------------------------
\* C20: storeFilePathForCall(callId, filePath) sets the pending entry of
\* callId to filePath, in place of any earlier value, and changes nothing
\* else: the other pending entries, the injected paths and the filesystem
\* stay as they are and no log, toast or prompt call is made, for any path,
\* also one outside the worktree; the next handleFileReadComplete for that
\* callId works on the path pending then, the most recently recorded one.
\* ------------------------------------------------------------------------
C20_Store ==
    stores' = stores + 1 =>
        LET op == lastHook'.callID
            p  == lastHook'.arg
        IN  /\ lastHook'.name = "before" /\ p \in HookPaths
            /\ pendingFilePathByCallId' =
                   [k \in DOMAIN pendingFilePathByCallId \union {op} |->
                       IF k = op THEN p ELSE pendingFilePathByCallId[k]]
            /\ injectedPathsBySession' = injectedPathsBySession
            /\ calls' = calls
            /\ fs' = fs

C20_Resolve ==
    (NewCallStep /\ lastHook'.callID \in DOMAIN pendingFilePathByCallId) =>
        LET c == calls'[Len(calls')]
        IN  /\ c.filePath = pendingFilePathByCallId[lastHook'.callID]
            /\ c.expected = ExpectedMarkers[c.filePath]
            /\ \A m \in Range(c.found) : m \in Range(c.expected)

C20_StoreFrame == [][C20_Store /\ C20_Resolve]_vars

\* the one callId in use was recorded twice, the second time over its pending
\* entry, and the invocation that followed worked on a path outside the
\* worktree
C20_Witness ==
    /\ stores = 2
    /\ consumed = {CallIdOrder[1]}
    /\ DOMAIN pendingFilePathByCallId = {}
    /\ Len(calls) = 1
    /\ calls[1].filePath = Str(Abs(<<nW2, nA, nF>>))
    /\ calls[1].pc = "done"

\* ------------------------------------------------------------------------
\* C21: injectedPathsBySession only grows: in every step every session that
\* is a key stays a key, and every path in its set stays in its set.
\* ------------------------------------------------------------------------
C21_Step ==
    \A s \in DOMAIN injectedPathsBySession :
        /\ s \in DOMAIN injectedPathsBySession'
        /\ injectedPathsBySession[s] \subseteq injectedPathsBySession'[s]

C21_RegistryOnlyGrows == [][C21_Step]_vars

\* a session's set has grown to two paths, and a further invocation of the
\* session, begun when the set held both, has returned
C21_Witness ==
    \E i, j \in CallIndex :
        /\ i < j
        /\ calls[i].sessionId = calls[j].sessionId
        /\ Len(calls[i].marked) = 2
        /\ calls[j].hadPath /\ calls[j].pc = "done"
        /\ calls[j].had = {sA, sAB}
        /\ injectedPathsBySession[calls[i].sessionId] = {sA, sAB}

====
